---- MODULE Spec2Model ----
(***************************************************************************)
(* The authenticated request pipeline of ApiClient (src/src/client.ts):    *)
(* the request interceptor, the response error handler with its token      *)
(* refresh coordination, refreshAccessToken, onRefreshed and handleError.  *)
(*                                                                         *)
(* JavaScript runs the handlers one at a time; a handler is suspended only *)
(* at an await.  Each action below is the code between two suspension      *)
(* points.  Tokens are numbered: 0 is a missing (undefined or empty)       *)
(* token, k > 0 is the k-th token the provider issued.                     *)
(*                                                                         *)
(* Further down: the resource methods that call the client (Auth.getToken, *)
(* Events.list with an accessToken), and the constructor,                  *)
(* Auth.generateAuthUrl and the query string of Events.list as functions   *)
(* of their arguments.                                                     *)
(* Last: a second client instance beside the first, the identity of the    *)
(* config object that getConfig returns, the order in which the transport  *)
(* receives the replays, and the 'tokens' event.                           *)
(***************************************************************************)
EXTENDS Integers, Sequences, FiniteSets, TLC

\* Number of originating API calls made on the client instance.
NCalls == 2
\* Number of setCredentials calls the application makes.
MaxSet == 2

Calls == 1..NCalls

VARIABLES
    credentials,        \* this.credentials
    isRefreshing,       \* this.isRefreshing
    refreshSubscribers, \* this.refreshSubscribers, as the calls whose closures are queued
    pc,                 \* per call: where its promise chain stands
    retry,              \* per call: originalRequest._retry
    auth,               \* per call: the token of the Authorization header last sent
    sends,              \* per call: how many times its request went to the transport
    role,               \* per call: how its 401 entered the refresh branch
    err,                \* per call: the error its promise was rejected with
    resp,               \* per call: status of the last response it received (0: none)
    refreshReq,         \* the promise of refreshAccessToken()
    refreshResult,      \* the value refreshAccessToken() resolved with
    triggerError,       \* `error` captured by the handler awaiting the refresh
    refreshCount,       \* refresh-grant requests sent to /oauth/token so far
    refreshInFlight,    \* refresh-grant requests sent and not yet answered
    issued,             \* tokens the provider has issued so far
    setCount,           \* setCredentials calls so far
    herr,               \* the error handed to handleError on its own
    hres,               \* what handleError returned for herr
    callKind,           \* per call: which method of the library issued it
    grant,              \* per call: the token the provider issued for its code exchange
    fin,                \* the arguments handed to a constructor or a request builder
    fout,               \* what it returned or threw for fin
    peer,               \* the instance fields of a second ApiClient of the same process
    cfg,                \* the config objects: the client's own and those getConfig returned
    wire,               \* the transport's record of the requests it received, in order
    listener            \* the application's listener for 'tokens' and what it was called with

vars == <<credentials, isRefreshing, refreshSubscribers, pc, retry, auth, sends,
          role, err, resp, refreshReq, refreshResult, triggerError, refreshCount,
          refreshInFlight, issued, setCount, herr, hres, callKind, grant,
          fin, fout, peer, cfg, wire, listener>>

callVars == <<pc, retry, auth, sends, role, err, resp>>
hVars == <<herr, hres>>
exVars == <<callKind, grant>>
fVars == <<fin, fout>>
auxVars == <<peer, cfg, wire, listener>>

(***************************************************************************)
(* Values                                                                  *)
(***************************************************************************)

\* `undefined` for the optional string fields
Undef == "undefined"

\* this.credentials before any setCredentials: undefined
NoCredentials == [set |-> FALSE, access_token |-> 0, refresh_token |-> 0]

TokenResponse(a, r) == [set |-> TRUE, access_token |-> a, refresh_token |-> r]

\* The arguments and the result of a function applied on its own: none
NoInput == [op |-> "none"]
NoOutput == [op |-> "none"]

\* A second ApiClient as its constructor leaves it: its own credentials,
\* isRefreshing and refreshSubscribers, and the _retry marks of its requests.
NewPeer == [credentials |-> NoCredentials, isRefreshing |-> FALSE,
            refreshSubscribers |-> <<>>, retried |-> {}]

\* No config object is under observation.
NoConfig == [variant |-> "none", objects |-> <<>>, returned |-> <<>>]

\* The transport keeps no record of the requests.
NotRecording == [on |-> FALSE, log |-> <<>>]

\* No listener is registered for 'tokens'.
NoListener == [registered |-> FALSE, received |-> <<>>]

\* A retry-after header value and the result of reading it
NoHeader == [present |-> FALSE, value |-> <<>>]
Header(s) == [present |-> TRUE, value |-> s]
NumUndefined == [tag |-> "undefined", n |-> 0]
NumNaN == [tag |-> "NaN", n |-> 0]
Num(n) == [tag |-> "int", n |-> n]

\* An AxiosError: response absent (transport failure) or present with status,
\* body fields and the retry-after header; message is the transport's message.
AxiosError(hasResponse, status, dmessage, dcode, ddetails, retryAfter, message) ==
    [response |-> hasResponse, status |-> status, dmessage |-> dmessage,
     dcode |-> dcode, ddetails |-> ddetails, retryAfter |-> retryAfter,
     message |-> message]

TransportMessage == "transport message"
ProviderMessage == "provider message"

NoAxiosError == AxiosError(FALSE, 0, Undef, Undef, Undef, NoHeader, "")

\* A normalized error (src/src/types.ts); absent fields are undefined / 0
NormalizedError(kind, message, code, details, retryAfter, status) ==
    [kind |-> kind, message |-> message, code |-> code, details |-> details,
     retryAfter |-> retryAfter, status |-> status]

NoError == NormalizedError("none", "", Undef, Undef, NumUndefined, 0)

MobiscrollConnectError(message, code) ==
    NormalizedError("MobiscrollConnectError", message, code, Undef, NumUndefined, 0)
AuthenticationError(message) ==
    NormalizedError("AuthenticationError", message, "AUTHENTICATION_ERROR", Undef, NumUndefined, 0)
NotFoundError(message) ==
    NormalizedError("NotFoundError", message, "NOT_FOUND_ERROR", Undef, NumUndefined, 0)
ValidationError(message, details) ==
    NormalizedError("ValidationError", message, "VALIDATION_ERROR", details, NumUndefined, 0)
RateLimitError(message, retryAfter) ==
    NormalizedError("RateLimitError", message, "RATE_LIMIT_ERROR", Undef, retryAfter, 0)
ServerError(message, status) ==
    NormalizedError("ServerError", message, "SERVER_ERROR", Undef, NumUndefined, status)
NetworkError(message) ==
    NormalizedError("NetworkError", message, "NETWORK_ERROR", Undef, NumUndefined, 0)

Kinds == {"MobiscrollConnectError", "AuthenticationError", "NotFoundError",
          "ValidationError", "RateLimitError", "ServerError", "NetworkError"}

(***************************************************************************)
(* Number.parseInt on a header string                                      *)
(***************************************************************************)

Digits == {"0", "1", "2", "3", "4", "5", "6", "7", "8", "9"}

DigitValue(ch) ==
    CASE ch = "0" -> 0 [] ch = "1" -> 1 [] ch = "2" -> 2 [] ch = "3" -> 3
      [] ch = "4" -> 4 [] ch = "5" -> 5 [] ch = "6" -> 6 [] ch = "7" -> 7
      [] ch = "8" -> 8 [] ch = "9" -> 9

RECURSIVE SkipSpaces(_)
SkipSpaces(s) ==
    IF s # <<>> /\ Head(s) = " " THEN SkipSpaces(Tail(s)) ELSE s

RECURSIVE DigitPrefix(_, _)
DigitPrefix(s, acc) ==
    IF s # <<>> /\ Head(s) \in Digits
    THEN DigitPrefix(Tail(s), 10 * acc + DigitValue(Head(s)))
    ELSE acc

\* Leading white space is skipped, an optional sign is read, then the longest
\* prefix of digits; NaN when there is no digit.
ParseInt(s) ==
    LET t == SkipSpaces(s)
        neg == t # <<>> /\ Head(t) = "-"
        u == IF t # <<>> /\ Head(t) \in {"-", "+"} THEN Tail(t) ELSE t
    IN  IF u = <<>> \/ Head(u) \notin Digits
        THEN NumNaN
        ELSE Num(IF neg THEN 0 - DigitPrefix(u, 0) ELSE DigitPrefix(u, 0))

(***************************************************************************)
(* handleError                                                             *)
(***************************************************************************)

\* Faulty variant: an empty provider message is kept (?? in place of ||)
ResolveMessage_NullishOnly(error) ==
    IF error.dmessage # Undef
    THEN error.dmessage
    ELSE error.message

\* data?.message || error.message
ResolveMessage(error) ==
    IF error.dmessage # Undef /\ error.dmessage # ""
    THEN error.dmessage
    ELSE error.message

\* retryAfter ? Number.parseInt(retryAfter) : undefined
RetryAfterOf(error) ==
    IF error.retryAfter.present /\ error.retryAfter.value # <<>>
    THEN ParseInt(error.retryAfter.value)
    ELSE NumUndefined

\* Faulty variant: the 403 case label is missing: 403 falls to the default
HandleError_403Default(error) ==
    IF ~error.response
    THEN NetworkError(error.message)
    ELSE LET message == ResolveMessage(error)
             status == error.status
         IN  CASE status = 401 -> AuthenticationError(message)
               [] status = 404 -> NotFoundError(message)
               [] status \in {400, 422} -> ValidationError(message, error.ddetails)
               [] status = 429 -> RateLimitError(message, RetryAfterOf(error))
               [] status \in {500, 502, 503, 504} -> ServerError(message, status)
               [] OTHER -> MobiscrollConnectError(message, error.dcode)

\* Faulty variant: the transport's message is replaced by a fixed text
HandleError_FixedNetworkMessage(error) ==
    IF ~error.response
    THEN NetworkError("Network Error")
    ELSE LET message == ResolveMessage(error)
             status == error.status
         IN  CASE status \in {401, 403} -> AuthenticationError(message)
               [] status = 404 -> NotFoundError(message)
               [] status \in {400, 422} -> ValidationError(message, error.ddetails)
               [] status = 429 -> RateLimitError(message, RetryAfterOf(error))
               [] status \in {500, 502, 503, 504} -> ServerError(message, status)
               [] OTHER -> MobiscrollConnectError(message, error.dcode)

HandleError(error) ==
    IF ~error.response
    THEN NetworkError(error.message)
    ELSE LET message == ResolveMessage(error)
             status == error.status
         IN  CASE status \in {401, 403} -> AuthenticationError(message)
               [] status = 404 -> NotFoundError(message)
               [] status \in {400, 422} -> ValidationError(message, error.ddetails)
               [] status = 429 -> RateLimitError(message, RetryAfterOf(error))
               [] status \in {500, 502, 503, 504} -> ServerError(message, status)
               [] OTHER -> MobiscrollConnectError(message, error.dcode)

(***************************************************************************)
(* Inputs                                                                  *)
(***************************************************************************)

\* Failure statuses the transport answers a call with (0: no response): the
\* status the interceptor tests for, and one for each other error class that
\* passes through it.  handleError's whole table is exercised on its own over
\* ErrorStatuses.
FailureStatuses == {401, 403, 404, 429, 500}

\* The errors the transport rejects a call with.
TransportErrors ==
    {AxiosError(TRUE, s, Undef, Undef, Undef, NoHeader, TransportMessage) :
        s \in FailureStatuses}
    \cup {AxiosError(FALSE, 0, Undef, Undef, Undef, NoHeader, TransportMessage)}

(***************************************************************************)
(* Initial state: the client as the constructor leaves it                  *)
(***************************************************************************)

InitClient ==
    /\ credentials = NoCredentials
    /\ isRefreshing = FALSE
    /\ refreshSubscribers = <<>>
    /\ pc = [c \in Calls |-> "idle"]
    /\ retry = [c \in Calls |-> FALSE]
    /\ auth = [c \in Calls |-> 0]
    /\ sends = [c \in Calls |-> 0]
    /\ role = [c \in Calls |-> "none"]
    /\ err = [c \in Calls |-> NoError]
    /\ resp = [c \in Calls |-> 0]
    /\ refreshReq = "none"
    /\ refreshResult = 0
    /\ triggerError = NoAxiosError
    /\ refreshCount = 0
    /\ refreshInFlight = 0
    /\ issued = 0
    /\ setCount = 0
    /\ callKind = [c \in Calls |-> "api"]
    /\ grant = [c \in Calls |-> 0]
    /\ peer = NewPeer
    /\ cfg = NoConfig
    /\ wire = NotRecording
    /\ listener = NoListener

Init ==
    /\ InitClient
    /\ herr = NoAxiosError
    /\ hres = NoError
    /\ fin = NoInput
    /\ fout = NoOutput

(***************************************************************************)
(* setCredentials                                                          *)
(***************************************************************************)

\* The application stores a token set it obtained from the provider, with or
\* without a refresh token.
SetCredentials ==
    /\ setCount < MaxSet
    /\ \E withRefresh \in BOOLEAN :
          credentials' = TokenResponse(issued + 1, IF withRefresh THEN issued + 1 ELSE 0)
    /\ issued' = issued + 1
    /\ setCount' = setCount + 1
    /\ UNCHANGED <<isRefreshing, refreshSubscribers, callVars, refreshReq,
                   refreshResult, triggerError, refreshCount, refreshInFlight, hVars, exVars, fVars, auxVars>>

(***************************************************************************)
(* Request interceptor and the sending of a call                           *)
(***************************************************************************)

\* The Authorization token of the outgoing request: the stored access token
\* when there is one, else what the request config already carries.
RequestInterceptor(creds, headerAuth) ==
    IF creds.set /\ creds.access_token # 0 THEN creds.access_token ELSE headerAuth

\* Authorization header values that are not a token of the store:
\* `Basic <base64(clientId:clientSecret)>` and `Bearer <accessToken>` for an
\* accessToken the caller passes with the call.
BasicAuth == 0 - 1
OverrideBearer == 0 - 2

\* headers.Authorization of the request config as the calling method builds it
\* (0: none).
CallerAuthorization(k) ==
    CASE k = "api" -> 0
      [] k = "override" -> OverrideBearer
      [] k = "exchange" -> BasicAuth

\* The transport's record after it received the requests of the calls `sent`,
\* in that order.
WireAfter(sent) == IF wire.on THEN [wire EXCEPT !.log = @ \o sent] ELSE wire

\* client.get / post / put / patch / delete with the config of a method of
\* kind k: the request goes through the request interceptor to the transport.
\* Calls are numbered in issue order.
Request(c, k) ==
    /\ pc[c] = "idle"
    /\ IF c = 1 THEN TRUE ELSE pc[c - 1] # "idle"
    /\ pc' = [pc EXCEPT ![c] = "inflight"]
    /\ callKind' = [callKind EXCEPT ![c] = k]
    /\ auth' = [auth EXCEPT ![c] = RequestInterceptor(credentials, CallerAuthorization(k))]
    /\ sends' = [sends EXCEPT ![c] = 1]
    /\ wire' = WireAfter(<<c>>)
    /\ UNCHANGED <<credentials, isRefreshing, refreshSubscribers, retry, role, err,
                   resp, refreshReq, refreshResult, triggerError, refreshCount,
                   refreshInFlight, issued, setCount, hVars, grant, fVars, peer, cfg,
                   listener>>

\* A call that passes no Authorization header of its own.
StartCall(c) == Request(c, "api")

(***************************************************************************)
(* Response interceptor                                                    *)
(***************************************************************************)

\* A 2xx response: the success handler returns it and the call's promise is
\* fulfilled.  (The continuation of getToken is GetTokenReturns.)
ResponseSuccess(c) ==
    /\ pc[c] = "inflight"
    /\ callKind[c] # "exchange"
    /\ pc' = [pc EXCEPT ![c] = "fulfilled"]
    /\ resp' = [resp EXCEPT ![c] = 200]
    /\ UNCHANGED <<credentials, isRefreshing, refreshSubscribers, retry, auth, sends,
                   role, err, refreshReq, refreshResult, triggerError, refreshCount,
                   refreshInFlight, issued, setCount, hVars, exVars, fVars, auxVars>>

\* Faulty variant: a 403 enters the refresh branch as a 401 does
ShouldRefresh_Also403(c, error) ==
    /\ error.response
    /\ error.status \in {401, 403}
    /\ credentials.set
    /\ credentials.refresh_token # 0
    /\ ~retry[c]

\* Faulty variant: a 429 enters the refresh branch and is retried
ShouldRefresh_Also429(c, error) ==
    /\ error.response
    /\ error.status \in {401, 429}
    /\ credentials.set
    /\ credentials.refresh_token # 0
    /\ ~retry[c]

\* Faulty variant: the stored refresh token is not tested
ShouldRefresh_NoTokenTest(c, error) ==
    /\ error.response
    /\ error.status = 401
    /\ ~retry[c]

\* Faulty variant: the _retry flag is not tested
ShouldRefresh_NoRetryFlag(c, error) ==
    /\ error.response
    /\ error.status = 401
    /\ credentials.set
    /\ credentials.refresh_token # 0

\* The guard of the refresh branch.
ShouldRefresh(c, error) ==
    /\ error.response
    /\ error.status = 401
    /\ credentials.set
    /\ credentials.refresh_token # 0
    /\ ~retry[c]

\* Faulty variant: the flag is not consulted: every 401 starts a refresh
RefreshInProgress_Ignored == FALSE

\* Faulty variant: the flag is process-wide, shared by every instance
RefreshInProgress_Shared == isRefreshing \/ peer.isRefreshing

\* The test that sends a 401 to the waiter queue instead of a new refresh.
RefreshInProgress == isRefreshing

\* An error response or a transport failure: the error handler, up to its
\* first suspension or its rejection.
ResponseError(c, error) ==
    /\ pc[c] = "inflight"
    /\ resp' = [resp EXCEPT ![c] = IF error.response THEN error.status ELSE 0]
    /\ IF ShouldRefresh(c, error)
       THEN /\ retry' = [retry EXCEPT ![c] = TRUE]
            /\ IF RefreshInProgress
               THEN \* a waiter: its closure is pushed, its promise stays pending
                    /\ refreshSubscribers' = Append(refreshSubscribers, c)
                    /\ pc' = [pc EXCEPT ![c] = "waiting"]
                    /\ role' = [role EXCEPT ![c] = "waiter"]
                    /\ UNCHANGED <<isRefreshing, refreshReq, triggerError, refreshCount,
                                   refreshInFlight>>
               ELSE \* the trigger: refreshAccessToken() runs to its axios.post
                    /\ isRefreshing' = TRUE
                    /\ refreshReq' = "inflight"
                    /\ refreshCount' = refreshCount + 1
                    /\ refreshInFlight' = refreshInFlight + 1
                    /\ triggerError' = error
                    /\ pc' = [pc EXCEPT ![c] = "refreshing"]
                    /\ role' = [role EXCEPT ![c] = "trigger"]
                    /\ UNCHANGED refreshSubscribers
            /\ UNCHANGED err
       ELSE /\ pc' = [pc EXCEPT ![c] = "rejected"]
            /\ err' = [err EXCEPT ![c] = HandleError(error)]
            /\ UNCHANGED <<retry, role, isRefreshing, refreshSubscribers, refreshReq,
                           triggerError, refreshCount, refreshInFlight>>
    /\ UNCHANGED <<credentials, auth, sends, refreshResult, issued, setCount, hVars, exVars, fVars, auxVars>>

(***************************************************************************)
(* refreshAccessToken                                                      *)
(***************************************************************************)

\* Faulty variant: the stored refresh token is not kept when the response has none
MergeTokens_NoFallback(old, newTokens) ==
    TokenResponse(newTokens.access_token, newTokens.refresh_token)

\* Faulty variant: the response's access token is not taken over
MergeTokens_KeepAccessToken(old, newTokens) ==
    TokenResponse(old.access_token,
                  IF newTokens.refresh_token # 0
                  THEN newTokens.refresh_token
                  ELSE old.refresh_token)

\* { ...this.credentials, ...newTokens,
\*   refresh_token: newTokens.refresh_token || this.credentials.refresh_token }
MergeTokens(old, newTokens) ==
    TokenResponse(newTokens.access_token,
                  IF newTokens.refresh_token # 0
                  THEN newTokens.refresh_token
                  ELSE old.refresh_token)

\* The bodies the token endpoint can answer a refresh grant with: a newly
\* issued access token, with or without a new refresh token.
RefreshResponses ==
    {TokenResponse(issued + 1, r) : r \in {0, issued + 1}}

\* this.emit('tokens', payload): a registered listener is called with the
\* payload and returns.
Emit(payload) ==
    IF listener.registered
    THEN [listener EXCEPT !.received = Append(@, payload)]
    ELSE listener

\* Faulty variant: 'tokens' is emitted before the credentials are replaced
RefreshResolvesWith_EmitsBeforeStore(newTokens) ==
    /\ refreshReq = "inflight"
    /\ credentials' = MergeTokens(credentials, newTokens)
    /\ listener' = Emit(credentials)
    /\ issued' = issued + 1
    /\ refreshResult' = credentials'.access_token
    /\ refreshReq' = "resolved"
    /\ refreshInFlight' = refreshInFlight - 1
    /\ UNCHANGED <<isRefreshing, refreshSubscribers, callVars, triggerError,
                   refreshCount, setCount, hVars, exVars, fVars, peer, cfg, wire>>

\* The token endpoint answers the refresh grant with newTokens: the credentials
\* are replaced, 'tokens' is emitted with them and the promise resolves with
\* the new access token.
RefreshResolvesWith(newTokens) ==
    /\ refreshReq = "inflight"
    /\ credentials' = MergeTokens(credentials, newTokens)
    /\ listener' = Emit(credentials')
    /\ issued' = issued + 1
    /\ refreshResult' = credentials'.access_token
    /\ refreshReq' = "resolved"
    /\ refreshInFlight' = refreshInFlight - 1
    /\ UNCHANGED <<isRefreshing, refreshSubscribers, callVars, triggerError,
                   refreshCount, setCount, hVars, exVars, fVars, peer, cfg, wire>>

RefreshResolves == \E newTokens \in RefreshResponses : RefreshResolvesWith(newTokens)

\* Faulty variant: a failed refresh discards the stored credentials
RefreshThrows_ClearsCredentials ==
    /\ refreshReq = "inflight"
    /\ refreshReq' = "thrown"
    /\ refreshInFlight' = refreshInFlight - 1
    /\ credentials' = NoCredentials
    /\ UNCHANGED <<isRefreshing, refreshSubscribers, callVars, refreshResult,
                   triggerError, refreshCount, issued, setCount, hVars, exVars, fVars,
                   auxVars>>

\* The token endpoint fails: the catch throws
\* AuthenticationError('Failed to refresh token').
RefreshThrows ==
    /\ refreshReq = "inflight"
    /\ refreshReq' = "thrown"
    /\ refreshInFlight' = refreshInFlight - 1
    /\ UNCHANGED <<credentials, isRefreshing, refreshSubscribers, callVars,
                   refreshResult, triggerError, refreshCount, issued, setCount, hVars, exVars, fVars, auxVars>>

(***************************************************************************)
(* The trigger's handler after the await                                   *)
(***************************************************************************)

\* The calls a replay re-issues: every queued waiter, then the trigger.
Range(q) == {q[i] : i \in 1..Len(q)}

\* Faulty variant: the queue is emptied without running the closures
OnRefreshedReplays_None == {}

\* Faulty variant: the closures run last pushed first
OnRefreshedOrder_Reversed ==
    [i \in 1..Len(refreshSubscribers) |->
        refreshSubscribers[Len(refreshSubscribers) + 1 - i]]

\* onRefreshed: forEach runs the queued closures from the first pushed to the
\* last, and each re-issues its request through this.client.
OnRefreshedOrder == refreshSubscribers

OnRefreshedReplays == Range(OnRefreshedOrder)

\* Success path: the flag is cleared, onRefreshed replays the waiters and
\* empties the queue, then the trigger re-issues its own request.
RefreshContinue(c) ==
    /\ pc[c] = "refreshing"
    /\ refreshReq = "resolved"
    /\ isRefreshing' = FALSE
    /\ refreshSubscribers' = <<>>
    /\ LET replayed == OnRefreshedReplays \cup {c}
       IN  /\ pc' = [d \in DOMAIN pc |-> IF d \in replayed THEN "inflight" ELSE pc[d]]
           /\ auth' = [d \in DOMAIN pc |->
                         IF d \in replayed
                         THEN RequestInterceptor(credentials, refreshResult)
                         ELSE auth[d]]
           /\ sends' = [d \in DOMAIN pc |-> IF d \in replayed THEN sends[d] + 1 ELSE sends[d]]
    /\ wire' = WireAfter(OnRefreshedOrder \o <<c>>)
    /\ refreshReq' = "none"
    /\ triggerError' = NoAxiosError
    /\ refreshResult' = 0
    /\ UNCHANGED <<credentials, retry, role, err, resp, refreshCount, refreshInFlight,
                   issued, setCount, hVars, exVars, fVars, peer, cfg, listener>>

\* The error the trigger's promise is rejected with when the refresh failed.
RefreshFailureError(error) == HandleError(error)

\* Faulty variant: the failure path leaves the flag set
RefreshCatch_KeepsFlag(c) ==
    /\ pc[c] = "refreshing"
    /\ refreshReq = "thrown"
    /\ refreshSubscribers' = <<>>
    /\ pc' = [pc EXCEPT ![c] = "rejected"]
    /\ err' = [err EXCEPT ![c] = RefreshFailureError(triggerError)]
    /\ refreshReq' = "none"
    /\ triggerError' = NoAxiosError
    /\ UNCHANGED <<credentials, isRefreshing, retry, auth, sends, role, resp,
                   refreshResult, refreshCount, refreshInFlight, issued, setCount,
                   hVars, exVars, fVars, auxVars>>

\* Faulty variant: the failure path clears the flag and leaves the queue as it is
RefreshCatch_KeepsQueue(c) ==
    /\ pc[c] = "refreshing"
    /\ refreshReq = "thrown"
    /\ isRefreshing' = FALSE
    /\ pc' = [pc EXCEPT ![c] = "rejected"]
    /\ err' = [err EXCEPT ![c] = RefreshFailureError(triggerError)]
    /\ refreshReq' = "none"
    /\ triggerError' = NoAxiosError
    /\ UNCHANGED <<credentials, refreshSubscribers, retry, auth, sends, role, resp,
                   refreshResult, refreshCount, refreshInFlight, issued, setCount,
                   hVars, exVars, fVars, auxVars>>

\* Failure path: the flag is cleared, the queue is dropped and the trigger is
\* rejected.  The dropped closures were the only references to the waiters'
\* resolve functions.
RefreshCatch(c) ==
    /\ pc[c] = "refreshing"
    /\ refreshReq = "thrown"
    /\ isRefreshing' = FALSE
    /\ refreshSubscribers' = <<>>
    /\ pc' = [pc EXCEPT ![c] = "rejected"]
    /\ err' = [err EXCEPT ![c] = RefreshFailureError(triggerError)]
    /\ refreshReq' = "none"
    /\ triggerError' = NoAxiosError
    /\ UNCHANGED <<credentials, retry, auth, sends, role, resp, refreshResult,
                   refreshCount, refreshInFlight, issued, setCount, hVars, exVars, fVars, auxVars>>

(***************************************************************************)
(* Specification                                                           *)
(***************************************************************************)

Next ==
    \/ SetCredentials
    \/ \E c \in Calls : StartCall(c)
    \/ \E c \in Calls : ResponseSuccess(c)
    \/ \E c \in Calls : \E error \in TransportErrors : ResponseError(c, error)
    \/ RefreshResolves
    \/ RefreshThrows
    \/ \E c \in Calls : RefreshContinue(c)
    \/ \E c \in Calls : RefreshCatch(c)

Spec == Init /\ [][Next]_vars

TypeOK ==
    /\ isRefreshing \in BOOLEAN
    /\ pc \in [Calls -> {"idle", "inflight", "refreshing", "waiting", "fulfilled", "rejected"}]
    /\ refreshReq \in {"none", "inflight", "resolved", "thrown"}
    /\ \A c \in Calls : sends[c] \in 0..2


(***************************************************************************)
(* The refresh scenario under a transport that answers every request       *)
(***************************************************************************)

\* The client after the application has stored a token set with a refresh
\* token; the application changes the credentials no further.
InitRefresh ==
    /\ credentials = TokenResponse(1, 1)
    /\ isRefreshing = FALSE
    /\ refreshSubscribers = <<>>
    /\ pc = [c \in Calls |-> "idle"]
    /\ retry = [c \in Calls |-> FALSE]
    /\ auth = [c \in Calls |-> 0]
    /\ sends = [c \in Calls |-> 0]
    /\ role = [c \in Calls |-> "none"]
    /\ err = [c \in Calls |-> NoError]
    /\ resp = [c \in Calls |-> 0]
    /\ refreshReq = "none"
    /\ refreshResult = 0
    /\ triggerError = NoAxiosError
    /\ refreshCount = 0
    /\ refreshInFlight = 0
    /\ issued = 1
    /\ setCount = 1
    /\ herr = NoAxiosError
    /\ hres = NoError
    /\ callKind = [c \in Calls |-> "api"]
    /\ grant = [c \in Calls |-> 0]
    /\ fin = NoInput
    /\ fout = NoOutput
    /\ peer = NewPeer
    /\ cfg = NoConfig
    /\ wire = NotRecording
    /\ listener = NoListener

Answer(c) ==
    \/ ResponseSuccess(c)
    \/ \E error \in TransportErrors : ResponseError(c, error)

NextRefresh ==
    \/ \E c \in Calls : StartCall(c)
    \/ \E c \in Calls : Answer(c)
    \/ RefreshResolves
    \/ RefreshThrows
    \/ \E c \in Calls : RefreshContinue(c)
    \/ \E c \in Calls : RefreshCatch(c)

\* Every request on the wire is answered, and a settled promise runs its
\* continuation.
LiveSpec ==
    /\ InitRefresh
    /\ [][NextRefresh]_vars
    /\ \A c \in Calls : WF_vars(Answer(c))
    /\ WF_vars(RefreshResolves \/ RefreshThrows)
    /\ \A c \in Calls : WF_vars(RefreshContinue(c))
    /\ \A c \in Calls : WF_vars(RefreshCatch(c))

(***************************************************************************)
(* handleError as a function of the error it is given                      *)
(***************************************************************************)

ErrorStatuses == {302, 400, 401, 402, 403, 404, 418, 422, 429,
                  500, 501, 502, 503, 504}

RetryAfterHeaders ==
    {NoHeader, Header(<<>>), Header(<<"6", "0">>), Header(<<"0">>),
     Header(<<"a">>), Header(<<"6", "a">>), Header(<<" ", "7">>)}

HandleErrorInputs ==
    {AxiosError(TRUE, s, m, code, d, h, TransportMessage) :
        s \in ErrorStatuses, m \in {Undef, "", ProviderMessage},
        code \in {Undef, "E42"}, d \in {Undef, "details"}, h \in RetryAfterHeaders}
    \cup {AxiosError(FALSE, 0, Undef, Undef, Undef, NoHeader, TransportMessage)}

InitHandleError ==
    /\ InitClient
    /\ herr \in HandleErrorInputs
    /\ hres = NoError
    /\ fin = NoInput
    /\ fout = NoOutput

ApplyHandleError ==
    /\ hres = NoError
    /\ hres' = HandleError(herr)
    /\ UNCHANGED <<credentials, isRefreshing, refreshSubscribers, callVars, refreshReq,
                   refreshResult, triggerError, refreshCount, refreshInFlight, issued,
                   setCount, herr, exVars, fVars, auxVars>>

NextHandleError == ApplyHandleError

SpecHandleError == InitHandleError /\ [][NextHandleError]_vars

(***************************************************************************)
(* Shorthands for the properties                                           *)
(***************************************************************************)

HasRefreshToken == credentials.set /\ credentials.refresh_token # 0

Settled(c) == pc[c] \in {"fulfilled", "rejected"}

Suspended(c) == pc[c] \in {"refreshing", "waiting"}

\* Call c is suspended on the refresh in progress: it awaits it as the trigger
\* or its closure is in the waiter queue.
OnCurrentRefresh(c) ==
    \/ pc[c] = "refreshing"
    \/ \E i \in 1..Len(refreshSubscribers) : refreshSubscribers[i] = c

\* Call c receives a response (or a transport failure) in this step.
Answered(c) == pc[c] = "inflight" /\ pc'[c] # "inflight"

\* The step condition of C1.
C1_NoSecondRefresh ==
    isRefreshing =>
        /\ refreshCount' = refreshCount
        /\ \A c \in Calls :
              (Answered(c) /\ resp'[c] = 401 /\ HasRefreshToken /\ ~retry[c]) =>
                  /\ pc'[c] = "waiting"
                  /\ retry'[c]
                  /\ refreshSubscribers' = Append(refreshSubscribers, c)

(***************************************************************************)
(* C1: at most one refresh-grant request to /oauth/token is in flight at   *)
(* any time, and while a refresh is in progress no step sends another      *)
(* refresh-grant request: a call whose 401 enters the refresh branch then  *)
(* is appended to the waiter queue.                                        *)
(***************************************************************************)
C1_SingleRefreshInFlight ==
    /\ [](refreshInFlight <= 1)
    /\ [][C1_NoSecondRefresh]_vars

\* A 401 arrived while the refresh request was on the wire and was queued.
C1_Witness ==
    /\ refreshInFlight = 1
    /\ isRefreshing
    /\ \E c \in Calls : pc[c] = "waiting" /\ resp[c] = 401
    /\ Len(refreshSubscribers) = NCalls - 1

(***************************************************************************)
(* C2 (as stated): once every one of the N calls has received a 401 with a *)
(* refresh token stored, exactly one refresh-grant request has been issued *)
(* in total.                                                               *)
(***************************************************************************)
C2_ExactlyOneRefreshInTotal ==
    (\A c \in Calls : retry[c]) => refreshCount = 1

(***************************************************************************)
(* C2 (amended): when every one of the N calls has received a 401 with a   *)
(* refresh token stored, between 1 and N refresh-grant requests have been  *)
(* issued; exactly one when all N calls are suspended on the same refresh  *)
(* (one started it, the others were queued before its completion was       *)
(* processed), and exactly one when one call started a refresh and every   *)
(* other call was queued as a waiter.                                      *)
(***************************************************************************)
C2_OneRefreshPerBatch ==
    (\A c \in Calls : retry[c]) =>
        /\ refreshCount \in 1..NCalls
        /\ (\A c \in Calls : Suspended(c)) => refreshCount = 1
        /\ (\E c \in Calls : /\ role[c] = "trigger"
                             /\ \A d \in Calls \ {c} : role[d] = "waiter")
              => refreshCount = 1

\* All N calls failed with 401 and wait on the one refresh that is in flight.
C2_Witness ==
    /\ \A c \in Calls : retry[c] /\ resp[c] = 401 /\ Suspended(c)
    /\ refreshCount = 1
    /\ refreshInFlight = 1
    /\ Len(refreshSubscribers) = NCalls - 1

\* The step condition of C4.
C4_ReplayedAnswer ==
    \A c \in Calls :
        (Answered(c) /\ retry[c]) =>
            /\ Settled(c)'
            /\ sends'[c] = 2
            /\ refreshCount' = refreshCount
            /\ refreshInFlight' = refreshInFlight
            /\ isRefreshing' = isRefreshing
            /\ refreshSubscribers' = refreshSubscribers
            /\ resp'[c] = 401 =>
                  pc'[c] = "rejected" /\ err'[c].kind = "AuthenticationError"

(***************************************************************************)
(* C4: a call is sent at most twice.  A replayed call that is answered     *)
(* settles in that step, starts no refresh and is not queued; when the     *)
(* answer is a 401 it is rejected with AuthenticationError.                *)
(***************************************************************************)
C4_RetryOnce ==
    /\ [](\A c \in Calls : sends[c] <= 2)
    /\ [][C4_ReplayedAnswer]_vars

\* A trigger and a waiter were both replayed after a refresh and both got a
\* second 401 while a refresh token is stored.
C4_Witness ==
    /\ HasRefreshToken
    /\ \E c, d \in Calls :
          /\ role[c] = "trigger" /\ role[d] = "waiter"
          /\ sends[c] = 2 /\ sends[d] = 2
          /\ resp[c] = 401 /\ resp[d] = 401
          /\ pc[c] = "rejected" /\ pc[d] = "rejected"

\* The step condition of C3.
C3_ReplayCarriesToken ==
    \A c \in Calls :
        (Suspended(c) /\ pc'[c] = "inflight") =>
            /\ refreshReq = "resolved"
            /\ refreshResult # 0
            /\ refreshResult = credentials.access_token
            /\ auth'[c] = refreshResult
            /\ sends'[c] = sends[c] + 1

(***************************************************************************)
(* C3: under a transport that answers every request, once the refresh has  *)
(* succeeded every call suspended on it (the trigger and each queued       *)
(* waiter) is re-issued with the refreshed access token in its             *)
(* Authorization header and eventually settles after exactly two sends.    *)
(***************************************************************************)
C3_AllCallsComplete ==
    /\ [][C3_ReplayCarriesToken]_vars
    /\ \A c \in Calls :
          (OnCurrentRefresh(c) /\ refreshReq = "resolved") ~> (Settled(c) /\ sends[c] = 2)

\* Every call got a 401, one refresh served them all, and every call was
\* re-issued with the refreshed token and fulfilled.
C3_Witness ==
    /\ refreshCount = 1
    /\ \E c \in Calls : role[c] = "trigger"
    /\ \E c \in Calls : role[c] = "waiter"
    /\ \A c \in Calls :
          /\ role[c] # "none"
          /\ pc[c] = "fulfilled"
          /\ sends[c] = 2
          /\ auth[c] = credentials.access_token
          /\ auth[c] = 2

(***************************************************************************)
(* C5: when no refresh is in progress the waiter queue is empty and no     *)
(* call is left waiting: a call queued on a refresh that failed has been   *)
(* rejected with an AuthenticationError.                                   *)
(***************************************************************************)
C5_WaitersRejectedOnFailure ==
    ~isRefreshing =>
        /\ refreshSubscribers = <<>>
        /\ \A c \in Calls :
              role[c] = "waiter" =>
                  \/ sends[c] = 2
                  \/ pc[c] = "rejected" /\ err[c].kind = "AuthenticationError"

(***************************************************************************)
(* C6: a call that started a refresh and was rejected without having been  *)
(* re-issued (the refresh failed) carries                                  *)
(* AuthenticationError("Failed to refresh token").                         *)
(***************************************************************************)
C6_TriggerGetsRefreshFailure ==
    \A c \in Calls :
        (role[c] = "trigger" /\ pc[c] = "rejected" /\ sends[c] = 1) =>
            err[c] = AuthenticationError("Failed to refresh token")

\* The step condition of C7.
C7_Step ==
    \A c \in Calls :
        (Answered(c) /\ resp'[c] = 401 /\ ~HasRefreshToken) =>
            /\ pc'[c] = "rejected"
            /\ err'[c].kind = "AuthenticationError"
            /\ sends'[c] = sends[c]
            /\ retry'[c] = retry[c]
            /\ refreshCount' = refreshCount
            /\ refreshInFlight' = refreshInFlight
            /\ isRefreshing' = isRefreshing
            /\ refreshSubscribers' = refreshSubscribers

(***************************************************************************)
(* C7: a call answered 401 while no refresh token is stored is rejected in *)
(* that step with an AuthenticationError; no refresh-grant request is      *)
(* sent, nothing is queued, the call is not re-issued, and the refreshing  *)
(* flag and the waiter queue are unchanged.                                *)
(***************************************************************************)
C7_NoRefreshTokenNoRefresh == [][C7_Step]_vars

\* A first 401 rejected at once: with no credentials at all, and with
\* credentials that lost their refresh token while a refresh was in progress.
C7_Witness ==
    \E c, d \in Calls :
        /\ pc[c] = "rejected" /\ resp[c] = 401 /\ sends[c] = 1 /\ ~retry[c]
        /\ auth[c] = 0
        /\ err[c].kind = "AuthenticationError"
        /\ pc[d] = "rejected" /\ resp[d] = 401 /\ sends[d] = 1 /\ ~retry[d]
        /\ auth[d] # 0
        /\ credentials.set /\ credentials.refresh_token = 0
        /\ refreshCount = 0

\* The step condition of C8 as stated.
C8_Step401Or403 ==
    \A c \in Calls :
        (Answered(c) /\ resp'[c] \in {401, 403} /\ HasRefreshToken /\ ~retry[c]) =>
            Suspended(c)'

(***************************************************************************)
(* C8 (as stated): a first 401 or 403 answer, with a refresh token stored, *)
(* passes the call to the refresh coordinator: the call starts a refresh   *)
(* or waits on the one in progress.                                        *)
(***************************************************************************)
C8_RefreshOn401Or403 == [][C8_Step401Or403]_vars

\* The step condition of C8 as amended.
C8_Step ==
    \A c \in Calls :
        /\ (Answered(c) /\ resp'[c] = 401 /\ HasRefreshToken /\ ~retry[c]) =>
              /\ Suspended(c)'
              /\ isRefreshing'
              /\ refreshInFlight' = 1 \/ refreshReq' \in {"resolved", "thrown"}
        /\ (Answered(c) /\ resp'[c] = 403) =>
              /\ pc'[c] = "rejected"
              /\ err'[c].kind = "AuthenticationError"
              /\ refreshCount' = refreshCount
              /\ refreshSubscribers' = refreshSubscribers
              /\ isRefreshing' = isRefreshing
              /\ sends'[c] = sends[c]
        /\ sends'[c] > sends[c] /\ sends[c] > 0 =>
              /\ Suspended(c)
              /\ refreshReq = "resolved"

(***************************************************************************)
(* C8 (amended): a first 401 answer, with a refresh token stored, passes   *)
(* the call to the refresh coordinator (it starts a refresh or waits on    *)
(* the one in progress) and the call is re-issued only by the step that    *)
(* processes the successful refresh; a 403 answer never reaches the        *)
(* coordinator: the call is rejected in that step with an                  *)
(* AuthenticationError, no refresh is started and it is not re-issued.     *)
(***************************************************************************)
C8_RefreshOn401Only == [][C8_Step]_vars

\* With a refresh token stored, one call answered 403 was rejected after a
\* single send while another answered 401 was re-issued after the refresh.
C8_Witness ==
    /\ HasRefreshToken
    /\ \E c, d \in Calls :
          /\ resp[c] = 403 /\ pc[c] = "rejected" /\ sends[c] = 1 /\ role[c] = "none"
          /\ role[d] = "trigger" /\ sends[d] = 2 /\ refreshCount = 1

\* The step condition of C9.
C9_Step ==
    \A c \in Calls :
        (Answered(c) /\ resp'[c] \notin {200, 401}) =>
            /\ pc'[c] = "rejected"
            /\ err'[c].kind \in Kinds
            /\ resp'[c] = 429 => err'[c].kind = "RateLimitError"
            /\ resp'[c] = 0 => err'[c].kind = "NetworkError"
            /\ sends' = sends
            /\ ~retry[c] => sends'[c] = 1
            /\ retry' = retry
            /\ role' = role
            /\ refreshCount' = refreshCount
            /\ refreshInFlight' = refreshInFlight
            /\ isRefreshing' = isRefreshing
            /\ refreshSubscribers' = refreshSubscribers

(***************************************************************************)
(* C9: an answer that is a failure other than a 401 (any other status, or  *)
(* no response at all) rejects the call in that step with the normalized   *)
(* error of that answer; the step sends nothing, starts no refresh and     *)
(* queues nothing, and a call whose first answer it is has been sent       *)
(* exactly once.                                                           *)
(***************************************************************************)
C9_OtherErrorsPassThrough == [][C9_Step]_vars

\* With a refresh token stored, a 429 and a transport failure were each
\* rejected after one send and no refresh was started.
C9_Witness ==
    /\ HasRefreshToken
    /\ refreshCount = 0
    /\ \E c, d \in Calls :
          /\ pc[c] = "rejected" /\ resp[c] = 429 /\ sends[c] = 1
          /\ err[c].kind = "RateLimitError"
          /\ pc[d] = "rejected" /\ resp[d] = 0 /\ sends[d] = 1
          /\ err[d].kind = "NetworkError"

\* The table of kinds by status.
TableKind(hasResponse, status) ==
    IF ~hasResponse THEN "NetworkError"
    ELSE IF status = 401 \/ status = 403 THEN "AuthenticationError"
    ELSE IF status = 404 THEN "NotFoundError"
    ELSE IF status = 400 \/ status = 422 THEN "ValidationError"
    ELSE IF status = 429 THEN "RateLimitError"
    ELSE IF status = 500 \/ status = 502 \/ status = 503 \/ status = 504
         THEN "ServerError"
    ELSE "MobiscrollConnectError"

(***************************************************************************)
(* C10: handleError maps every failure to exactly one of the seven kinds,  *)
(* by the table: no response -> NetworkError; 401, 403 ->                  *)
(* AuthenticationError; 404 -> NotFoundError; 400, 422 -> ValidationError  *)
(* with the body's details; 429 -> RateLimitError; 500, 502, 503, 504 ->   *)
(* ServerError with the status; any other status -> the base error with    *)
(* the body's code.                                                        *)
(***************************************************************************)
C10_StatusToKind ==
    hres # NoError =>
        /\ hres.kind \in Kinds
        /\ hres.kind = TableKind(herr.response, herr.status)
        /\ hres.kind = "ValidationError" => hres.details = herr.ddetails
        /\ hres.kind = "ServerError" => hres.status = herr.status
        /\ hres.kind = "MobiscrollConnectError" => hres.code = herr.dcode
        /\ hres.kind # "ValidationError" => hres.details = Undef
        /\ hres.kind # "ServerError" => hres.status = 0

\* A 503 became a ServerError that carries 503.
C10_Witness ==
    /\ herr.response /\ herr.status = 503
    /\ hres.kind = "ServerError" /\ hres.status = 503

(***************************************************************************)
(* C11: for a 429 response the RateLimitError's retryAfter is the integer  *)
(* parsed from the retry-after header, and it is undefined both when the   *)
(* header is missing and when its value cannot be parsed as a number.      *)
(***************************************************************************)
C11_RetryAfterParsedOrAbsent ==
    (hres # NoError /\ herr.response /\ herr.status = 429) =>
        /\ hres.kind = "RateLimitError"
        /\ IF herr.retryAfter.present /\ ParseInt(herr.retryAfter.value).tag = "int"
           THEN hres.retryAfter = ParseInt(herr.retryAfter.value)
           ELSE hres.retryAfter = NumUndefined

(***************************************************************************)
(* The client under a transport that answers 2xx or 401, or fails without  *)
(* a response                                                              *)
(***************************************************************************)

\* error.message of a failure without a response: axios' own texts for a
\* connection failure and for a timeout.
NetworkFailureMessages == {"Network Error", "timeout of 30000ms exceeded"}

NetworkFailures ==
    {AxiosError(FALSE, 0, Undef, Undef, Undef, NoHeader, m) :
        m \in NetworkFailureMessages}

Unauthorized == AxiosError(TRUE, 401, Undef, Undef, Undef, NoHeader, TransportMessage)

TransportFailures == NetworkFailures \cup {Unauthorized}

NextTransport ==
    \/ SetCredentials
    \/ \E c \in Calls : StartCall(c)
    \/ \E c \in Calls : ResponseSuccess(c)
    \/ \E c \in Calls : \E error \in TransportFailures : ResponseError(c, error)
    \/ RefreshResolves
    \/ RefreshThrows
    \/ \E c \in Calls : RefreshContinue(c)
    \/ \E c \in Calls : RefreshCatch(c)

SpecTransport == Init /\ [][NextTransport]_vars

\* The step condition of C12.
C12_Step ==
    \A c \in Calls : \A e \in NetworkFailures :
        ResponseError(c, e) =>
            /\ pc'[c] = "rejected"
            /\ err'[c].kind = "NetworkError"
            /\ err'[c].message = e.message
            /\ refreshCount' = refreshCount
            /\ refreshInFlight' = refreshInFlight
            /\ isRefreshing' = isRefreshing
            /\ refreshSubscribers' = refreshSubscribers
            /\ sends' = sends
            /\ credentials' = credentials

(***************************************************************************)
(* C12: a call whose request fails without a response is rejected in that  *)
(* step with a NetworkError whose message is the transport error's own     *)
(* message, with or without a stored refresh token, on a first send or on  *)
(* a replay; the step sends no refresh-grant request, queues nothing and   *)
(* re-issues nothing.                                                      *)
(***************************************************************************)
C12_NetworkErrorPassesThrough == [][C12_Step]_vars

\* With a refresh token stored and another call's refresh in progress, a call
\* timed out and was rejected with the timeout's message; only the one refresh
\* was started.
C12_Witness ==
    /\ HasRefreshToken
    /\ isRefreshing
    /\ refreshCount = 1
    /\ \E c \in Calls :
          /\ pc[c] = "rejected" /\ resp[c] = 0
          /\ err[c] = NetworkError("timeout of 30000ms exceeded")

\* The step condition of C13 as stated.
C13_StepAsStated ==
    \A newTokens \in RefreshResponses :
        RefreshResolvesWith(newTokens) =>
            /\ credentials'.access_token = newTokens.access_token
            /\ credentials'.refresh_token =
                  IF newTokens.refresh_token # 0
                  THEN newTokens.refresh_token
                  ELSE credentials.refresh_token
            /\ credentials'.refresh_token # 0

(***************************************************************************)
(* C13 (as stated): after every successful refresh the stored access_token *)
(* is the response's, the stored refresh_token is the response's when it   *)
(* has one and otherwise the one stored before, and the client is never    *)
(* left without a refresh token.                                           *)
(***************************************************************************)
C13_RefreshNeverLosesRefreshToken == [][C13_StepAsStated]_vars

\* The step condition of C13.
C13_Step ==
    \A newTokens \in RefreshResponses :
        RefreshResolvesWith(newTokens) =>
            /\ credentials'.set
            /\ credentials'.access_token = newTokens.access_token
            /\ refreshResult' = newTokens.access_token
            /\ credentials'.refresh_token =
                  IF newTokens.refresh_token # 0
                  THEN newTokens.refresh_token
                  ELSE credentials.refresh_token
            /\ (newTokens.refresh_token # 0 \/ credentials.refresh_token # 0)
                  => credentials'.refresh_token # 0
            /\ (newTokens.refresh_token = 0 /\ credentials.refresh_token = 0)
                  => credentials'.refresh_token = 0

(***************************************************************************)
(* C13 (amended): when a refresh response is processed the stored          *)
(* access_token becomes the response's, and the stored refresh_token       *)
(* becomes the response's when it has one and otherwise stays the one      *)
(* stored at that moment; the client keeps a refresh token unless the      *)
(* response has none and the credentials stored at that moment (replaced   *)
(* by setCredentials while the refresh was in flight) have none either.    *)
(***************************************************************************)
C13_RefreshMergesTokens == [][C13_Step]_vars

\* A refresh response without a refresh token was processed: the access token
\* is the newly issued one and the refresh token is the older, kept one.
C13_Witness ==
    /\ refreshReq = "resolved"
    /\ credentials.access_token = issued
    /\ refreshResult = issued
    /\ credentials.refresh_token # 0
    /\ credentials.refresh_token < issued

(***************************************************************************)
(* The resource methods on the client: Events.list with an accessToken and *)
(* Auth.getToken                                                           *)
(***************************************************************************)

\* Events.list({ accessToken }) (likewise Calendars.list, getConnectionStatus,
\* disconnect): headers.Authorization = `Bearer ${accessToken}` is passed to
\* client.get.
ListWithAccessToken(c) == Request(c, "override")

\* Auth.getToken(code), up to its await: the form POST to /oauth/token with
\* headers.Authorization = `Basic ...` goes through client.post.
GetToken(c) == Request(c, "exchange")

\* The token endpoint accepts the code of exchange c and issues a token set;
\* its response is on its way.
TokenEndpointGrants(c) ==
    /\ pc[c] = "inflight"
    /\ callKind[c] = "exchange"
    /\ grant[c] = 0
    /\ grant' = [grant EXCEPT ![c] = issued + 1]
    /\ issued' = issued + 1
    /\ UNCHANGED <<credentials, isRefreshing, refreshSubscribers, callVars, refreshReq,
                   refreshResult, triggerError, refreshCount, refreshInFlight,
                   setCount, hVars, callKind, fVars, auxVars>>

\* The bodies of the response to exchange c: the token set issued for it, with
\* or without a refresh token.
ExchangeResponses(c) ==
    {TokenResponse(grant[c], r) : r \in {0, grant[c]}}

\* Faulty variant: getToken returns the tokens without storing them
StoreExchanged_NotStored(tokens) == credentials

\* this.setCredentials(response.data): the credentials after getToken's
\* continuation.
StoreExchanged(tokens) == tokens

\* The 2xx response of exchange c arrives with body tokens: getToken's
\* continuation stores response.data and returns it.
GetTokenReturnsWith(c, tokens) ==
    /\ pc[c] = "inflight"
    /\ callKind[c] = "exchange"
    /\ grant[c] # 0
    /\ credentials' = StoreExchanged(tokens)
    /\ pc' = [pc EXCEPT ![c] = "fulfilled"]
    /\ resp' = [resp EXCEPT ![c] = 200]
    /\ UNCHANGED <<isRefreshing, refreshSubscribers, retry, auth, sends, role, err,
                   refreshReq, refreshResult, triggerError, refreshCount,
                   refreshInFlight, issued, setCount, hVars, exVars, fVars, auxVars>>

GetTokenReturns(c) == \E tokens \in ExchangeResponses(c) : GetTokenReturnsWith(c, tokens)

NextResources ==
    \/ SetCredentials
    \/ \E c \in Calls : StartCall(c)
    \/ \E c \in Calls : ListWithAccessToken(c)
    \/ \E c \in Calls : GetToken(c)
    \/ \E c \in Calls : ResponseSuccess(c)
    \/ \E c \in Calls : TokenEndpointGrants(c)
    \/ \E c \in Calls : GetTokenReturns(c)
    \/ \E c \in Calls : \E error \in TransportFailures : ResponseError(c, error)
    \/ RefreshResolves
    \/ RefreshThrows
    \/ \E c \in Calls : RefreshContinue(c)
    \/ \E c \in Calls : RefreshCatch(c)

SpecResources == Init /\ [][NextResources]_vars

(***************************************************************************)
(* The writers of the credentials: setCredentials, getToken and the        *)
(* refresh, under a transport that answers 2xx or 401                      *)
(***************************************************************************)

\* The application exchanges an authorization code in its first request, if
\* at all.
ExchangeCalls == {1}

NextCredentials ==
    \/ SetCredentials
    \/ \E c \in Calls : StartCall(c)
    \/ \E c \in ExchangeCalls : GetToken(c)
    \/ \E c \in Calls : ResponseSuccess(c)
    \/ \E c \in Calls : TokenEndpointGrants(c)
    \/ \E c \in Calls : GetTokenReturns(c)
    \/ \E c \in Calls : ResponseError(c, Unauthorized)
    \/ RefreshResolves
    \/ RefreshThrows
    \/ \E c \in Calls : RefreshContinue(c)
    \/ \E c \in Calls : RefreshCatch(c)

SpecCredentials == Init /\ [][NextCredentials]_vars

\* The tokens the client has received so far: every token issued, but those of
\* exchange responses that have not been delivered to getToken.
ReceivedTokens ==
    (1..issued) \ {grant[c] : c \in {d \in Calls : grant[d] # 0 /\ pc[d] # "fulfilled"}}

LatestReceived == CHOOSE k \in ReceivedTokens : \A j \in ReceivedTokens : j <= k

(***************************************************************************)
(* C14 (as stated): in every reachable state, whatever the interleaving of *)
(* setCredentials, code exchanges and refreshes, the stored access_token   *)
(* is the most recently issued of the tokens the client has received.      *)
(***************************************************************************)
C14_StoredTokenIsLatestIssued ==
    ReceivedTokens # {} =>
        /\ credentials.set
        /\ credentials.access_token = LatestReceived

\* The step condition of C14.
C14_Step ==
    credentials' # credentials =>
        \/ SetCredentials /\ credentials'.access_token = issued'
        \/ \E newTokens \in RefreshResponses :
              /\ RefreshResolvesWith(newTokens)
              /\ credentials'.access_token = newTokens.access_token
        \/ \E c \in Calls : \E tokens \in ExchangeResponses(c) :
              /\ GetTokenReturnsWith(c, tokens)
              /\ credentials'.access_token = grant[c]

(***************************************************************************)
(* C14 (amended): the stored access_token is the one written by the most   *)
(* recently completed write: the credentials change only when              *)
(* setCredentials runs, when a refresh response is processed and when a    *)
(* code exchange returns, and each of these stores the access token it was *)
(* given; the stored token is always one the client has received, but it   *)
(* is the most recently issued one only when the writes complete in the    *)
(* order in which the provider issued their tokens.                        *)
(***************************************************************************)
C14_LastWriteWins ==
    /\ [][C14_Step]_vars
    /\ [](credentials.set => credentials.access_token \in ReceivedTokens)
    /\ [](ReceivedTokens # {} => credentials.set)

\* The response of a code exchange arrived after a refresh had stored a token
\* issued later: the store holds the exchange's, older, token.
C14_Witness ==
    /\ credentials.set
    /\ credentials.access_token < LatestReceived
    /\ refreshCount > 0
    /\ \E c \in Calls :
          /\ callKind[c] = "exchange" /\ pc[c] = "fulfilled"
          /\ grant[c] = credentials.access_token

\* The step condition of C15.
C15_Step ==
    \A c \in Calls :
        /\ ListWithAccessToken(c) => credentials' = credentials
        /\ StartCall(c) =>
              auth'[c] = IF credentials.set THEN credentials.access_token ELSE 0

(***************************************************************************)
(* C15: a call made with an accessToken goes out with `Bearer <that        *)
(* accessToken>` in place of the stored token; making it leaves the stored *)
(* credentials unchanged, and a call without an accessToken carries the    *)
(* stored token.                                                           *)
(***************************************************************************)
C15_OverrideCarried ==
    /\ [](\A c \in Calls :
            (callKind[c] = "override" /\ sends[c] = 1) => auth[c] = OverrideBearer)
    /\ [][C15_Step]_vars

\* The step condition of C16.
C16_Step ==
    \A c \in Calls :
        /\ GetToken(c) => auth'[c] = BasicAuth
        /\ StartCall(c) =>
              auth'[c] = IF credentials.set /\ credentials.access_token # 0
                         THEN credentials.access_token
                         ELSE 0

(***************************************************************************)
(* C16: a request whose caller passes an Authorization header, as getToken *)
(* does with Basic client credentials, goes out with that header whatever  *)
(* the stored credentials are; a request whose caller passes none goes out *)
(* with the stored access token when credentials are stored and with no    *)
(* Authorization header otherwise.                                         *)
(***************************************************************************)
C16_CallerAuthorizationWins == [][C16_Step]_vars

\* The step condition of C17.
C17_Step ==
    \A c \in Calls : \A tokens \in ExchangeResponses(c) :
        GetTokenReturnsWith(c, tokens) =>
            /\ pc'[c] = "fulfilled"
            /\ credentials' = tokens

(***************************************************************************)
(* C17: a code exchange that succeeds has stored the returned credentials  *)
(* when it returns them; a code exchange that fails has left the stored    *)
(* credentials as they were: it has not had them replaced by a refresh it  *)
(* started.                                                                *)
(***************************************************************************)
C17_ExchangeStoresOrLeaves ==
    /\ [][C17_Step]_vars
    /\ [](\A c \in Calls :
            (callKind[c] = "exchange" /\ pc[c] = "rejected") =>
                ~(role[c] = "trigger" /\ sends[c] = 2))

(***************************************************************************)
(* The constructor as a function of the configuration it is given          *)
(***************************************************************************)

\* The values of a configuration field: undefined, the empty string and two
\* non-empty strings.
FieldValues == {Undef, "", "a", "b"}

\* !field
Falsy(field) == field = Undef \/ field = ""

OAuthConfig(clientId, clientSecret, redirectUri) ==
    [op |-> "construct", variant |-> "oauth", clientId |-> clientId,
     clientSecret |-> clientSecret, redirectUri |-> redirectUri, apiKey |-> Undef]

ApiKeyConfig(apiKey) ==
    [op |-> "construct", variant |-> "apikey", clientId |-> Undef,
     clientSecret |-> Undef, redirectUri |-> Undef, apiKey |-> apiKey]

ConstructorInputs ==
    {OAuthConfig(i, s, u) : i \in FieldValues, s \in FieldValues, u \in FieldValues}
    \cup {ApiKeyConfig(k) : k \in FieldValues}

\* No instance: the constructor threw.
NoClient == [config |-> NoInput, credentials |-> NoCredentials, isRefreshing |-> FALSE,
             refreshSubscribers |-> <<>>, authorization |-> Undef]

\* The instance the constructor leaves: the configuration, no credentials,
\* no refresh in progress, an empty waiter queue, and the Authorization
\* header among the defaults of its axios instance.
NewClient(config, authorization) ==
    [config |-> config, credentials |-> NoCredentials, isRefreshing |-> FALSE,
     refreshSubscribers |-> <<>>, authorization |-> authorization]

\* The outcome of `new ApiClient(config)`: the error thrown or the instance,
\* and the number of requests sent.
Thrown(error) ==
    [op |-> "construct", threw |-> TRUE, error |-> error, client |-> NoClient,
     requests |-> 0]
Constructed(client) ==
    [op |-> "construct", threw |-> FALSE, error |-> NoError, client |-> client,
     requests |-> 0]

\* Faulty variant: redirectUri is not among the fields tested
RequiredMissing_NoRedirectUri(config) ==
    IF config.variant = "oauth"
    THEN Falsy(config.clientId) \/ Falsy(config.clientSecret)
    ELSE Falsy(config.apiKey)

\* The test at the head of the constructor.
RequiredMissing(config) ==
    IF config.variant = "oauth"
    THEN Falsy(config.clientId) \/ Falsy(config.clientSecret) \/ Falsy(config.redirectUri)
    ELSE Falsy(config.apiKey)

Constructor(config) ==
    IF RequiredMissing(config)
    THEN Thrown(MobiscrollConnectError(
                  IF config.variant = "oauth"
                  THEN "Client ID, Client Secret and Redirect URI are required"
                  ELSE "API key is required",
                  Undef))
    ELSE Constructed(NewClient(config,
                               IF config.variant = "oauth" THEN Undef ELSE config.apiKey))

InitConstructor ==
    /\ InitClient
    /\ herr = NoAxiosError
    /\ hres = NoError
    /\ fin \in ConstructorInputs
    /\ fout = NoOutput

ApplyConstructor ==
    /\ fin.op = "construct"
    /\ fout.op = "none"
    /\ fout' = Constructor(fin)
    /\ UNCHANGED <<credentials, isRefreshing, refreshSubscribers, callVars, refreshReq,
                   refreshResult, triggerError, refreshCount, refreshInFlight, issued,
                   setCount, hVars, exVars, fin, auxVars>>

NextConstructor == ApplyConstructor

SpecConstructor == InitConstructor /\ [][NextConstructor]_vars

\* The required fields of a configuration.
RequiredFields(config) ==
    IF config.variant = "oauth"
    THEN {config.clientId, config.clientSecret, config.redirectUri}
    ELSE {config.apiKey}

(***************************************************************************)
(* C18: constructing a client with a required configuration field empty    *)
(* (clientId, clientSecret or redirectUri; apiKey in the API-key variant)  *)
(* throws the base MobiscrollConnectError, sends no request and leaves no  *)
(* instance; with every required field non-empty the construction yields   *)
(* an instance holding that configuration, and sends no request either.    *)
(***************************************************************************)
C18_ConstructorValidates ==
    fout.op = "construct" =>
        IF \E f \in RequiredFields(fin) : f \in {Undef, ""}
        THEN /\ fout.threw
             /\ fout.error.kind = "MobiscrollConnectError"
             /\ fout.error.code = Undef
             /\ fout.client = NoClient
             /\ fout.requests = 0
        ELSE /\ ~fout.threw
             /\ fout.error = NoError
             /\ fout.client # NoClient
             /\ fout.client.config = fin
             /\ fout.client.credentials = NoCredentials
             /\ fout.requests = 0

\* A configuration whose only empty field is redirectUri was rejected.
C18_Witness ==
    /\ fout.op = "construct"
    /\ fin.variant = "oauth"
    /\ fin.clientId = "a" /\ fin.clientSecret = "b" /\ fin.redirectUri = ""
    /\ fout.threw
    /\ fout.error.kind = "MobiscrollConnectError"

(***************************************************************************)
(* Auth.generateAuthUrl as a function of the configuration and its         *)
(* parameters.  Strings that enter the query string are sequences of       *)
(* characters.                                                             *)
(***************************************************************************)

\* An optional parameter: left out, or passed with a string.
Omitted == [given |-> FALSE, value |-> <<>>]
Given(s) == [given |-> TRUE, value |-> s]

\* The names the code gives the query parameters.
KeyResponseType == <<"r", "e", "s", "p", "o", "n", "s", "e", "_", "t", "y", "p", "e">>
KeyClientId == <<"c", "l", "i", "e", "n", "t", "_", "i", "d">>
KeyUserId == <<"u", "s", "e", "r", "_", "i", "d">>
KeyRedirectUri == <<"r", "e", "d", "i", "r", "e", "c", "t", "_", "u", "r", "i">>
KeyState == <<"s", "t", "a", "t", "e">>
KeyScope == <<"s", "c", "o", "p", "e">>
ValueCode == <<"c", "o", "d", "e">>

\* Faulty variant: the characters go into the query string as they are
UrlEncodeChar_Raw(ch) == <<ch>>

\* URLSearchParams.toString(): application/x-www-form-urlencoded.  A space
\* becomes "+", the characters that have a meaning in a query string become
\* their percent escapes, letters and digits stay.
UrlEncodeChar(ch) ==
    CASE ch = " " -> <<"+">>
      [] ch = "&" -> <<"%", "2", "6">>
      [] ch = "=" -> <<"%", "3", "D">>
      [] ch = "+" -> <<"%", "2", "B">>
      [] ch = "%" -> <<"%", "2", "5">>
      [] ch = ":" -> <<"%", "3", "A">>
      [] ch = "/" -> <<"%", "2", "F">>
      [] OTHER -> <<ch>>

RECURSIVE UrlEncode(_)
UrlEncode(s) ==
    IF s = <<>> THEN <<>> ELSE UrlEncodeChar(Head(s)) \o UrlEncode(Tail(s))

\* name=value pairs joined by "&", in insertion order.
RECURSIVE Serialize(_)
Serialize(pairs) ==
    IF pairs = <<>> THEN <<>>
    ELSE LET p == Head(pairs)
             one == UrlEncode(p[1]) \o <<"=">> \o UrlEncode(p[2])
         IN  IF Tail(pairs) = <<>> THEN one ELSE one \o <<"&">> \o Serialize(Tail(pairs))

\* Faulty variant: the parameter is set whether or not it has a value
SetIfTruthy_Always(pairs, name, opt) == Append(pairs, <<name, opt.value>>)

\* if (value) queryParams.set(name, value)
SetIfTruthy(pairs, name, opt) ==
    IF opt.given /\ opt.value # <<>> THEN Append(pairs, <<name, opt.value>>) ELSE pairs

\* `${baseURL}/oauth/authorize?${queryParams.toString()}`: the part before the
\* "?" and the query string.
GenerateAuthUrl(params) ==
    LET required == << <<KeyResponseType, ValueCode>>,
                       <<KeyClientId, params.clientId>>,
                       <<KeyUserId, params.userId>>,
                       <<KeyRedirectUri, params.redirectUri>> >>
        withState == SetIfTruthy(required, KeyState, params.state)
        withScope == SetIfTruthy(withState, KeyScope, params.scope)
    IN  [op |-> "authUrl",
         path |-> "https://connect.mobiscroll.com/api/oauth/authorize",
         query |-> Serialize(withScope)]

\* userId values: empty, plain, with a space, with query-string syntax in it,
\* with "+" and "%".
UserIds ==
    {<<>>, <<"u", "1">>, <<"a", " ", "b">>,
     <<"x", "&", "s", "t", "a", "t", "e", "=", "y">>, <<"a", "+", "%">>}

StateParams ==
    {Omitted, Given(<<>>), Given(<<"s", "1">>), Given(<<"a", " ", "b">>),
     Given(<<"x", "&", "s", "c", "o", "p", "e", "=", "y">>)}

ScopeParams ==
    {Omitted, Given(<<>>), Given(<<"r", "e", "a", "d">>),
     Given(<<"r", "&", "s", "t", "a", "t", "e", "=">>)}

ClientIds == {<<"i", "d">>, <<"m", "y", " ", "i", "d">>}

RedirectUris == {<<"u", "r", "i">>, <<"h", ":", "/", "/", "c", "b">>}

AuthUrlInputs ==
    {[op |-> "authUrl", clientId |-> i, redirectUri |-> u, userId |-> w,
      state |-> st, scope |-> sc] :
        i \in ClientIds, u \in RedirectUris, w \in UserIds,
        st \in StateParams, sc \in ScopeParams}

InitAuthUrl ==
    /\ InitClient
    /\ herr = NoAxiosError
    /\ hres = NoError
    /\ fin \in AuthUrlInputs
    /\ fout = NoOutput

ApplyGenerateAuthUrl ==
    /\ fin.op = "authUrl"
    /\ fout.op = "none"
    /\ fout' = GenerateAuthUrl(fin)
    /\ UNCHANGED <<credentials, isRefreshing, refreshSubscribers, callVars, refreshReq,
                   refreshResult, triggerError, refreshCount, refreshInFlight, issued,
                   setCount, hVars, exVars, fin, auxVars>>

NextAuthUrl == ApplyGenerateAuthUrl

SpecAuthUrl == InitAuthUrl /\ [][NextAuthUrl]_vars

\* Reading a query string back, as the receiving server does: split at "&",
\* split each part at its first "=", undo the escapes.
Split(s, sep) ==
    LET cuts == {0, Len(s) + 1} \cup {i \in 1..Len(s) : s[i] = sep}
        Cut(k) == CHOOSE b \in cuts : Cardinality({x \in cuts : x < b}) = k
    IN  [k \in 1..(Cardinality(cuts) - 1) |-> SubSeq(s, Cut(k - 1) + 1, Cut(k) - 1)]

Unescape(a, b) ==
    CASE <<a, b>> = <<"2", "6">> -> "&"
      [] <<a, b>> = <<"3", "D">> -> "="
      [] <<a, b>> = <<"2", "B">> -> "+"
      [] <<a, b>> = <<"2", "5">> -> "%"
      [] <<a, b>> = <<"3", "A">> -> ":"
      [] <<a, b>> = <<"2", "F">> -> "/"
      [] OTHER -> "?"

RECURSIVE UrlDecode(_)
UrlDecode(s) ==
    IF s = <<>> THEN <<>>
    ELSE IF Head(s) = "+" THEN <<" ">> \o UrlDecode(Tail(s))
    ELSE IF Head(s) = "%" /\ Len(s) >= 3
         THEN <<Unescape(s[2], s[3])>> \o UrlDecode(SubSeq(s, 4, Len(s)))
    ELSE <<Head(s)>> \o UrlDecode(Tail(s))

FirstEquals(s) ==
    IF \E i \in 1..Len(s) : s[i] = "="
    THEN CHOOSE i \in 1..Len(s) : s[i] = "=" /\ \A j \in 1..(i - 1) : s[j] # "="
    ELSE Len(s) + 1

ParseQuery(q) ==
    LET parts == Split(q, "&")
    IN  [i \in 1..Len(parts) |->
            LET k == FirstEquals(parts[i])
            IN  <<UrlDecode(SubSeq(parts[i], 1, k - 1)),
                  UrlDecode(SubSeq(parts[i], k + 1, Len(parts[i])))>>]

Contains(s, t) ==
    \E i \in 1..(Len(s) - Len(t) + 1) : SubSeq(s, i, i + Len(t) - 1) = t

\* The values the parsed query string has under a name.
ValuesOf(pairs, name) == {pairs[i][2] : i \in {j \in 1..Len(pairs) : pairs[j][1] = name}}

MaxPageSize == 1000

\* params.pageSize: undefined or a number.
NoPageSize == [given |-> FALSE, n |-> 0]
PageSize(n) == [given |-> TRUE, n |-> n]

PageSizes ==
    {NoPageSize} \cup {PageSize(n) : n \in (0..20) \cup (990..1010) \cup {5000}}

KeyPageSize == <<"p", "a", "g", "e", "S", "i", "z", "e">>

DigitChar(d) == CHOOSE ch \in Digits : DigitValue(ch) = d

\* pageSize.toString() for a non-negative integer
RECURSIVE NumberToString(_)
NumberToString(n) ==
    IF n < 10 THEN <<DigitChar(n)>>
    ELSE NumberToString(n \div 10) \o <<DigitChar(n % 10)>>

\* Math.min
Min(a, b) == IF a <= b THEN a ELSE b

\* The number the method sends for a truthy pageSize: the first definition
\* (events.ts:30) sends it as it is, the second (events.ts:165-168) sends
\* Math.min(pageSize, 1000).
SentPageSize(variant, n) ==
    IF variant = "oauth" THEN n ELSE Min(n, MaxPageSize)

\* The query string of the request: queryParams.toString().
EventsListQuery(params) ==
    IF params.pageSize.given /\ params.pageSize.n # 0
    THEN Serialize(<< <<KeyPageSize,
                        NumberToString(SentPageSize(params.variant, params.pageSize.n))>> >>)
    ELSE <<>>

\* The request Events.list hands to client.get: `/events?${query}`, or
\* '/events' when the query string is empty.
EventsList(params) ==
    LET query == EventsListQuery(params)
    IN  [op |-> "eventsList", method |-> "GET", path |-> "/events",
         hasQuery |-> query # <<>>, query |-> query]

EventsListInputs ==
    {[op |-> "eventsList", variant |-> v, pageSize |-> p] :
        v \in {"oauth", "apikey"}, p \in PageSizes}

InitEventsList ==
    /\ InitClient
    /\ herr = NoAxiosError
    /\ hres = NoError
    /\ fin \in EventsListInputs
    /\ fout = NoOutput

ApplyEventsList ==
    /\ fin.op = "eventsList"
    /\ fout.op = "none"
    /\ fout' = EventsList(fin)
    /\ UNCHANGED <<credentials, isRefreshing, refreshSubscribers, callVars, refreshReq,
                   refreshResult, triggerError, refreshCount, refreshInFlight, issued,
                   setCount, hVars, exVars, fin, auxVars>>

NextEventsList == ApplyEventsList

SpecEventsList == InitEventsList /\ [][NextEventsList]_vars

(***************************************************************************)
(* C20: for every positive requested pageSize p the GET /events request of *)
(* Events.list carries pageSize = min(p, 1000), once, and when no pageSize *)
(* is requested the request carries no pageSize parameter.                 *)
(***************************************************************************)
C20_PageSizeClamped ==
    fout.op = "eventsList" =>
        LET sent == ValuesOf(ParseQuery(fout.query), KeyPageSize)
        IN  /\ fout.method = "GET" /\ fout.path = "/events"
            /\ (fin.pageSize.given /\ fin.pageSize.n > 0) =>
                  /\ Cardinality(sent) = 1
                  /\ \A v \in sent : ParseInt(v) = Num(Min(fin.pageSize.n, 1000))
            /\ ~fin.pageSize.given =>
                  /\ sent = {}
                  /\ ~Contains(fout.query, KeyPageSize)

(***************************************************************************)
(* Two ApiClient instances in one process                                  *)
(***************************************************************************)

\* credentials, isRefreshing and refreshSubscribers are instance fields, and
\* the interceptors are closures over `this`.  The second instance is followed
\* through these fields only: its requests are numbered, and a request of it is
\* of interest when a 401 answers it.
PeerRequests == 1..2

\* setCredentials on the second instance.
PeerSetCredentials ==
    /\ ~peer.credentials.set
    /\ peer' = [peer EXCEPT !.credentials = TokenResponse(1, 1)]
    /\ UNCHANGED <<credentials, isRefreshing, refreshSubscribers, callVars, refreshReq,
                   refreshResult, triggerError, refreshCount, refreshInFlight, issued,
                   setCount, hVars, exVars, fVars, cfg, wire, listener>>

\* The guard of the refresh branch, in the second instance's error handler.
PeerShouldRefresh(k) ==
    /\ peer.credentials.set
    /\ peer.credentials.refresh_token # 0
    /\ k \notin peer.retried

\* The second instance's test of its own flag.
PeerRefreshInProgress == peer.isRefreshing

\* A 401 answers request k of the second instance: its handler marks the
\* request and queues it or starts a refresh, by the instance's own flag.
PeerUnauthorized(k) ==
    /\ PeerShouldRefresh(k)
    /\ peer' = [peer EXCEPT
                  !.retried = @ \cup {k},
                  !.refreshSubscribers =
                      IF PeerRefreshInProgress THEN Append(@, k) ELSE @,
                  !.isRefreshing = TRUE]
    /\ UNCHANGED <<credentials, isRefreshing, refreshSubscribers, callVars, refreshReq,
                   refreshResult, triggerError, refreshCount, refreshInFlight, issued,
                   setCount, hVars, exVars, fVars, cfg, wire, listener>>

\* The second instance's refresh ends: its flag and its queue are reset, and
\* after a success its credentials are the merged ones.
PeerRefreshEnds(ok) ==
    /\ peer.isRefreshing
    /\ peer' = [peer EXCEPT
                  !.credentials =
                      IF ok
                      THEN MergeTokens(@, TokenResponse(@.access_token + 1, 0))
                      ELSE @,
                  !.isRefreshing = FALSE,
                  !.refreshSubscribers = <<>>]
    /\ UNCHANGED <<credentials, isRefreshing, refreshSubscribers, callVars, refreshReq,
                   refreshResult, triggerError, refreshCount, refreshInFlight, issued,
                   setCount, hVars, exVars, fVars, cfg, wire, listener>>

\* The first instance holds the credentials it was given and takes calls; the
\* application gives the second instance its credentials meanwhile.
NextTwoClients ==
    \/ \E c \in Calls : StartCall(c)
    \/ \E c \in Calls : ResponseSuccess(c)
    \/ \E c \in Calls : ResponseError(c, Unauthorized)
    \/ RefreshResolves
    \/ RefreshThrows
    \/ \E c \in Calls : RefreshContinue(c)
    \/ \E c \in Calls : RefreshCatch(c)
    \/ PeerSetCredentials
    \/ \E k \in PeerRequests : PeerUnauthorized(k)
    \/ \E ok \in BOOLEAN : PeerRefreshEnds(ok)

SpecTwoClients == InitRefresh /\ [][NextTwoClients]_vars

\* The fields of the first instance the coordination of its refresh rests on.
OwnFields == <<credentials, isRefreshing, refreshSubscribers>>

C21_Step ==
    /\ OwnFields' # OwnFields => peer' = peer
    /\ \A c \in Calls :
          ResponseError(c, Unauthorized) /\ ShouldRefresh(c, Unauthorized) /\ ~isRefreshing
              => /\ isRefreshing'
                 /\ pc'[c] = "refreshing"
                 /\ refreshCount' = refreshCount + 1
                 /\ refreshSubscribers' = refreshSubscribers
    /\ \A k \in PeerRequests :
          PeerUnauthorized(k) /\ ~peer.isRefreshing
              => /\ peer'.isRefreshing
                 /\ peer'.refreshSubscribers = peer.refreshSubscribers

\* C21: no step changes the credentials, the refreshing flag or the waiter queue
\* of both instances, so an operation on one instance leaves those of the other
\* as they were; and a 401 that passes the refresh guard on an instance whose
\* own flag is false starts that instance's refresh and is not queued, whether
\* or not the other instance is refreshing.
C21_InstancesDoNotInterfere == [][C21_Step]_vars

\* Both instances are refreshing at once, each with a waiter of its own.
C21_Witness ==
    /\ isRefreshing
    /\ peer.isRefreshing
    /\ Len(refreshSubscribers) = 1
    /\ Len(peer.refreshSubscribers) = 1

(***************************************************************************)
(* The configuration object and getConfig                                  *)
(***************************************************************************)

\* JavaScript objects have identity.  cfg.objects are the config objects in
\* the order they were created, an object being referred to by its index:
\* object 1 is the one the application passes to the constructor.
\* cfg.returned are the references getConfig has handed out.  An object is
\* followed through its identifying field (clientId, or apiKey).
ConfigKeys == {"k1", "k2", "k3"}

\* getConfig calls the application makes.
MaxGetConfig == 2

\* this.config: the OAuth constructor keeps the object it was passed, the
\* API-key constructor builds an object of its own.
ThisConfig == IF cfg.variant = "oauth" THEN 1 ELSE 2

\* The configuration the client uses.
ClientConfig == cfg.objects[ThisConfig]

\* new ApiClient(config), for a config that passes the constructor's test.
NewApiClient(variant, key) ==
    /\ cfg.variant = "none"
    /\ cfg' = [variant |-> variant,
               objects |-> IF variant = "oauth" THEN <<key>> ELSE <<key, key>>,
               returned |-> <<>>]
    /\ UNCHANGED <<credentials, isRefreshing, refreshSubscribers, callVars, refreshReq,
                   refreshResult, triggerError, refreshCount, refreshInFlight, issued,
                   setCount, hVars, exVars, fVars, peer, wire, listener>>

\* getConfig: `return this.config` in the OAuth client,
\* `return { ...this.config }` in the API-key client.
GetConfig ==
    /\ cfg.variant # "none"
    /\ Len(cfg.returned) < MaxGetConfig
    /\ cfg' = IF cfg.variant = "oauth"
              THEN [cfg EXCEPT !.returned = Append(@, ThisConfig)]
              ELSE [cfg EXCEPT !.objects = Append(@, ClientConfig),
                               !.returned = Append(@, Len(cfg.objects) + 1)]
    /\ UNCHANGED <<credentials, isRefreshing, refreshSubscribers, callVars, refreshReq,
                   refreshResult, triggerError, refreshCount, refreshInFlight, issued,
                   setCount, hVars, exVars, fVars, peer, wire, listener>>

\* The application assigns the identifying field of the i-th object getConfig
\* returned to it.
WriteReturned(i, key) ==
    /\ i \in DOMAIN cfg.returned
    /\ cfg.objects[cfg.returned[i]] # key
    /\ cfg' = [cfg EXCEPT !.objects[cfg.returned[i]] = key]
    /\ UNCHANGED <<credentials, isRefreshing, refreshSubscribers, callVars, refreshReq,
                   refreshResult, triggerError, refreshCount, refreshInFlight, issued,
                   setCount, hVars, exVars, fVars, peer, wire, listener>>

\* setApiKey(apiKey) of the API-key client: this.config.apiKey = apiKey.  The
\* OAuth client has no such method.
SetApiKey(apiKey) ==
    /\ cfg.variant = "apikey"
    /\ ClientConfig # apiKey
    /\ cfg' = [cfg EXCEPT !.objects[ThisConfig] = apiKey]
    /\ UNCHANGED <<credentials, isRefreshing, refreshSubscribers, callVars, refreshReq,
                   refreshResult, triggerError, refreshCount, refreshInFlight, issued,
                   setCount, hVars, exVars, fVars, peer, wire, listener>>

NextConfig ==
    \/ \E variant \in {"oauth", "apikey"} : \E key \in ConfigKeys : NewApiClient(variant, key)
    \/ GetConfig
    \/ \E i \in 1..MaxGetConfig : \E key \in ConfigKeys : WriteReturned(i, key)
    \/ \E apiKey \in ConfigKeys : SetApiKey(apiKey)

SpecConfig == Init /\ [][NextConfig]_vars

C22_Step ==
    cfg.variant # "none" =>
        \* getConfig returns an object equal to the configuration ...
        /\ GetConfig =>
              cfg'.objects[cfg'.returned[Len(cfg'.returned)]] = ClientConfig
        \* ... that is neither the client's own object nor one returned before
        /\ \A i \in DOMAIN cfg'.returned :
              /\ cfg'.returned[i] # ThisConfig
              /\ \A j \in DOMAIN cfg'.returned : i # j => cfg'.returned[i] # cfg'.returned[j]
        \* a write to a returned object leaves the client's configuration alone
        /\ \A i \in 1..MaxGetConfig : \A key \in ConfigKeys :
              WriteReturned(i, key) => ClientConfig' = ClientConfig
        \* the configuration changes through setApiKey only
        /\ ClientConfig' # ClientConfig =>
              \E apiKey \in ConfigKeys : SetApiKey(apiKey) /\ ClientConfig' = apiKey

\* C22: getConfig returns a copy of the configuration, equal to it and distinct
\* from it and from every object returned before; a write to a returned object
\* does not change the configuration the client uses; the configuration changes
\* only in setApiKey(k), after which its key is k.
C22_ConfigChangesOnlyThroughUpdates == [][C22_Step]_vars

(***************************************************************************)
(* C23: the flag and the queue                                             *)
(***************************************************************************)

\* A refresh ends: the trigger's handler resumes after the await.
RefreshEnds == \E c \in Calls : RefreshContinue(c) \/ RefreshCatch(c)

C23_Step ==
    \* the end of a refresh resets both
    /\ RefreshEnds => ~isRefreshing' /\ refreshSubscribers' = <<>>
    \* the flag is cleared only where the queue is emptied as well ...
    /\ isRefreshing /\ ~isRefreshing' => refreshSubscribers' = <<>>
    \* ... and a non-empty queue is emptied only where the flag is cleared
    /\ refreshSubscribers # <<>> /\ refreshSubscribers' = <<>> => ~isRefreshing'

\* C23: in every reachable state the waiter queue is non-empty only while
\* isRefreshing is true, and every step that ends a refresh, by success or by
\* failure, clears the flag and empties the queue together.
C23_FlagAndQueueConsistent ==
    /\ [](refreshSubscribers # <<>> => isRefreshing)
    /\ [][C23_Step]_vars

\* A refresh has just failed with a waiter in the queue: the flag is false and
\* the queue is empty, the waiter's promise still pending.
C23_Witness ==
    /\ ~isRefreshing
    /\ refreshSubscribers = <<>>
    /\ \E c \in Calls : role[c] = "waiter" /\ pc[c] = "waiting"
    /\ \E c \in Calls : role[c] = "trigger" /\ pc[c] = "rejected"

(***************************************************************************)
(* The order of the replays                                                *)
(***************************************************************************)

\* Two waiters behind a trigger take one call more than the calls followed
\* elsewhere.
QueueCalls == 1..(NCalls + 1)

\* The client with stored credentials, on a transport that records the
\* requests it receives.
InitQueue ==
    /\ credentials = TokenResponse(1, 1)
    /\ isRefreshing = FALSE
    /\ refreshSubscribers = <<>>
    /\ pc = [c \in QueueCalls |-> "idle"]
    /\ retry = [c \in QueueCalls |-> FALSE]
    /\ auth = [c \in QueueCalls |-> 0]
    /\ sends = [c \in QueueCalls |-> 0]
    /\ role = [c \in QueueCalls |-> "none"]
    /\ err = [c \in QueueCalls |-> NoError]
    /\ resp = [c \in QueueCalls |-> 0]
    /\ refreshReq = "none"
    /\ refreshResult = 0
    /\ triggerError = NoAxiosError
    /\ refreshCount = 0
    /\ refreshInFlight = 0
    /\ issued = 1
    /\ setCount = 1
    /\ herr = NoAxiosError
    /\ hres = NoError
    /\ callKind = [c \in QueueCalls |-> "api"]
    /\ grant = [c \in QueueCalls |-> 0]
    /\ fin = NoInput
    /\ fout = NoOutput
    /\ peer = NewPeer
    /\ cfg = NoConfig
    /\ wire = [on |-> TRUE, log |-> <<>>]
    /\ listener = NoListener

NextQueue ==
    \/ \E c \in QueueCalls : StartCall(c)
    \/ \E c \in QueueCalls : ResponseSuccess(c)
    \/ \E c \in QueueCalls : ResponseError(c, Unauthorized)
    \/ RefreshResolves
    \/ \E c \in QueueCalls : RefreshContinue(c)

SpecQueue == InitQueue /\ [][NextQueue]_vars

\* Where in the transport's record the replay of call d is: the second request
\* of d.
ReplayIndex(d) ==
    CHOOSE i \in DOMAIN wire.log :
        wire.log[i] = d /\ \E j \in 1..(i - 1) : wire.log[j] = d

C24_Step ==
    \A c \in QueueCalls :
        RefreshContinue(c) =>
            \* what the transport receives in this step: the waiters' requests
            \* in the order of the queue, then the trigger's
            /\ wire'.log = wire.log \o refreshSubscribers \o <<c>>
            /\ \A i, j \in DOMAIN refreshSubscribers :
                  i < j => /\ pc'[refreshSubscribers[i]] = "inflight"
                           /\ pc'[refreshSubscribers[j]] = "inflight"

\* C24: when a refresh has succeeded, the transport receives the waiters'
\* requests again in the order in which the waiters were pushed on the queue
\* (and the trigger's after them); the order in which the replays are answered
\* is not constrained.
C24_ReplayInQueueOrder == [][C24_Step]_vars

\* Two waiters were replayed, and the one replayed later has its answer while
\* the one replayed earlier is still on the wire.
C24_Witness ==
    \E d, e \in QueueCalls :
        /\ role[d] = "waiter" /\ role[e] = "waiter"
        /\ sends[d] = 2 /\ sends[e] = 2
        /\ ReplayIndex(d) < ReplayIndex(e)
        /\ pc[d] = "inflight"
        /\ pc[e] = "fulfilled"

(***************************************************************************)
(* C25: a refresh and the one after it                                     *)
(***************************************************************************)

C25_Step ==
    \* a refresh-grant request is sent only when nothing of an earlier refresh
    \* is outstanding: the flag is false, the promise of refreshAccessToken is
    \* consumed, the queue is empty and no call is suspended on a refresh
    /\ refreshCount' # refreshCount =>
          /\ ~isRefreshing
          /\ refreshReq = "none"
          /\ refreshInFlight = 0
          /\ refreshSubscribers = <<>>
          /\ \A d \in QueueCalls : pc[d] \notin {"refreshing", "waiting"}
    \* the flag is cleared by the continuation of the trigger only, and that
    \* step finds the credentials updated and re-issues every queued waiter
    /\ isRefreshing /\ ~isRefreshing' => \E c \in QueueCalls : RefreshContinue(c)
    /\ \A c \in QueueCalls :
          RefreshContinue(c) =>
              /\ credentials.access_token = refreshResult
              /\ credentials' = credentials
              /\ refreshSubscribers' = <<>>
              /\ \A d \in Range(refreshSubscribers) \cup {c} :
                    /\ pc'[d] = "inflight"
                    /\ auth'[d] = credentials.access_token

C26_ExchangeOneShot ==
    \A c \in Calls :
        callKind[c] = "exchange" =>
            /\ sends[c] <= 1
            /\ role[c] = "none"
            /\ pc[c] \notin {"refreshing", "waiting"}

\* C27: the message of the error handleError builds from a response is the
\* body's message field when the body has one and it is not empty, and the
\* transport's message when the field is missing or empty, whatever the status
\* and the kind of the error.
C27_MessageResolution ==
    (hres # NoError /\ herr.response) =>
        /\ (herr.dmessage # Undef /\ herr.dmessage # "") => hres.message = herr.dmessage
        /\ (herr.dmessage = Undef \/ herr.dmessage = "") => hres.message = herr.message

\* A 429 whose body carries an empty message became a RateLimitError with the
\* transport's message.
C27_Witness ==
    /\ herr.response /\ herr.status = 429 /\ herr.dmessage = ""
    /\ hres.kind = "RateLimitError"
    /\ hres.message = TransportMessage

(***************************************************************************)
(* C28: the credentials across a failed refresh                            *)
(***************************************************************************)

C28_Step ==
    \* none of the steps of a failing refresh writes the credentials: its
    \* start, the failure of the token endpoint's request, the catch
    /\ refreshCount' # refreshCount => credentials' = credentials
    /\ RefreshThrows => credentials' = credentials
    /\ \A c \in Calls : RefreshCatch(c) => credentials' = credentials /\ ~isRefreshing'
    \* and a 401 of a call not yet retried then starts a refresh
    /\ \A c \in Calls :
          (ResponseError(c, Unauthorized) /\ ~isRefreshing /\ ~retry[c] /\ HasRefreshToken)
              => refreshCount' = refreshCount + 1 /\ pc'[c] = "refreshing"

\* C28: a refresh whose request to the token endpoint fails does not write the
\* credentials in any of its steps, so that unless the application stores
\* others meanwhile they are the ones of before the refresh, access token and
\* refresh token; and the next 401 of a call not yet retried starts a new
\* refresh with them.
C28_FailedRefreshKeepsCredentials == [][C28_Step]_vars

\* After a refresh that failed, a second one is in progress on the credentials
\* the application stored once.
C28_Witness ==
    /\ setCount = 1
    /\ credentials = TokenResponse(1, 1)
    /\ refreshCount = 2
    /\ isRefreshing
    /\ \E c \in Calls : role[c] = "trigger" /\ pc[c] = "rejected"

(***************************************************************************)
(* The 'tokens' event                                                      *)
(***************************************************************************)

\* The client after the application has registered a listener with
\* on('tokens', listener) and stored a token set with a refresh token.
InitEvents ==
    /\ credentials = TokenResponse(1, 1)
    /\ isRefreshing = FALSE
    /\ refreshSubscribers = <<>>
    /\ pc = [c \in Calls |-> "idle"]
    /\ retry = [c \in Calls |-> FALSE]
    /\ auth = [c \in Calls |-> 0]
    /\ sends = [c \in Calls |-> 0]
    /\ role = [c \in Calls |-> "none"]
    /\ err = [c \in Calls |-> NoError]
    /\ resp = [c \in Calls |-> 0]
    /\ refreshReq = "none"
    /\ refreshResult = 0
    /\ triggerError = NoAxiosError
    /\ refreshCount = 0
    /\ refreshInFlight = 0
    /\ issued = 1
    /\ setCount = 1
    /\ herr = NoAxiosError
    /\ hres = NoError
    /\ callKind = [c \in Calls |-> "api"]
    /\ grant = [c \in Calls |-> 0]
    /\ fin = NoInput
    /\ fout = NoOutput
    /\ peer = NewPeer
    /\ cfg = NoConfig
    /\ wire = NotRecording
    /\ listener = [registered |-> TRUE, received |-> <<>>]

\* The application replaces the credentials it stored at the start, once.
SetCredentialsAgain == setCount = 1 /\ SetCredentials

\* The transport rejects the API calls with 401; the token endpoint grants or
\* refuses.
NextEvents ==
    \/ SetCredentialsAgain
    \/ \E c \in Calls : StartCall(c)
    \/ \E c \in ExchangeCalls : GetToken(c)
    \/ \E c \in Calls : TokenEndpointGrants(c)
    \/ \E c \in Calls : GetTokenReturns(c)
    \/ \E c \in Calls : ResponseError(c, Unauthorized)
    \/ RefreshResolves
    \/ RefreshThrows
    \/ \E c \in Calls : RefreshContinue(c)
    \/ \E c \in Calls : RefreshCatch(c)

SpecEvents == InitEvents /\ [][NextEvents]_vars

C29_Step ==
    \* a refresh that succeeds emits once, with the credentials it has just
    \* stored, and re-issues no call in that step
    /\ \A newTokens \in RefreshResponses :
          RefreshResolvesWith(newTokens) =>
              /\ credentials' = MergeTokens(credentials, newTokens)
              /\ listener'.received = Append(listener.received, credentials')
              /\ isRefreshing'
              /\ pc' = pc /\ sends' = sends /\ auth' = auth
    \* nothing else emits: not a failed refresh, setCredentials or an exchange
    /\ listener'.received # listener.received => RefreshResolves
    \* the trigger and the waiters are re-issued after the emission
    /\ \A c \in Calls :
          RefreshContinue(c) =>
              /\ listener' = listener
              /\ listener.received # <<>>
              /\ listener.received[Len(listener.received)].access_token = refreshResult

\* C29: the listener registered for 'tokens' is called once in the step in
\* which a refresh succeeds, with the credentials that step has stored, while
\* the trigger and the waiters are still suspended; it is called in no other
\* step, so not by a failed refresh, by setCredentials or by getToken.
C29_TokensEmittedOncePerRefresh == [][C29_Step]_vars

\* The listener has been called once, with refreshed credentials that
\* setCredentials has since replaced; an exchange has returned and a refresh
\* has failed without a call of the listener.
C29_Witness ==
    /\ Len(listener.received) = 1
    /\ listener.received[1] # credentials
    /\ setCount = 2
    /\ refreshCount = 2
    /\ ~isRefreshing
    /\ \E c \in Calls : role[c] = "trigger" /\ pc[c] = "rejected"

(***************************************************************************)
(* C30: a refresh ends                                                     *)
(***************************************************************************)

\* The answer of the token endpoint to the refresh grant, either way.
RefreshAnswered == RefreshResolves \/ RefreshThrows

C30_Step ==
    \* the refresh grant is not a request of the intercepted client: its
    \* answer, a failure included, starts no refresh, queues nothing and marks
    \* no call
    /\ RefreshAnswered =>
          /\ refreshCount' = refreshCount
          /\ refreshInFlight' = 0
          /\ refreshSubscribers' = refreshSubscribers
          /\ isRefreshing' = isRefreshing
          /\ UNCHANGED <<pc, retry, role, sends>>
    \* the handler that awaited it clears the flag after a success and after
    \* a failure
    /\ \A c \in Calls : RefreshContinue(c) \/ RefreshCatch(c) => ~isRefreshing'

\* C30: with the token endpoint answering or failing every refresh grant, a
\* refresh that has started ends, the flag being false again after a success
\* and after a failure; the answer to the refresh grant, whatever it is, starts
\* no further refresh and puts nothing on the waiter queue.
C30_RefreshEnds ==
    /\ isRefreshing ~> ~isRefreshing
    /\ [][C30_Step]_vars

\* A refresh has failed and is over: its trigger was rejected without a
\* replay, and no refresh is in progress.
C30_Witness ==
    /\ ~isRefreshing
    /\ refreshReq = "none"
    /\ refreshCount = 1
    /\ \E c \in Calls : role[c] = "trigger" /\ pc[c] = "rejected" /\ sends[c] = 1

====
